---- MODULE Spec2Model ----
(***************************************************************************)
(* Model of the openFDA connector, src/fda_connector/connector.py:         *)
(* FDAConnector.__init__, _build_search_query, _make_request, schema,      *)
(* _extract_record_data and the generator FDAConnector.update, driven by   *)
(* a consumer that pulls events one at a time, against an upstream that    *)
(* serves a fixed list of raw items and may answer 429, fail, or send a    *)
(* body without `results`.                                                 *)
(***************************************************************************)
EXTENDS Integers, Sequences, FiniteSets, TLC

VARIABLES
    configuration,  \* the dict handed to FDAConnector(configuration)
    state,          \* the dict handed to update(state)
    source,         \* the upstream's raw items, in upstream order
    conn,           \* the connector's fields, once constructed
    pc,             \* where the consumer / the generator stands
    skip,           \* update(): local `skip`
    total_synced,   \* update(): local `total_synced`
    params,         \* the query dict of the request being made
    results,        \* update(): local `results`, the page being processed
    idx,            \* position of the for loop in `results` (1-based)
    events,         \* every message yielded so far, in order
    http,           \* the HTTP GETs issued so far, each with its answer
    sleeps,         \* the time.sleep() calls so far, in tenths of a second
    consumer        \* what the caller of update() has done and holds

vars == <<configuration, state, source, conn, pc, skip, total_synced, params,
          results, idx, events, http, sleeps, consumer>>

(***************************************************************************)
(* Bounds of the model.                                                    *)
(***************************************************************************)
\* The upstream holds at most this many raw items.
MaxItems == 3
\* `http` and `sleeps` keep the first MaxRetries 429 answers of a run and their
\* cooldowns; a later 429 is retried in the same way and leaves no trace.
MaxRetries == 2
\* The consumer starts at most this many runs, each from the checkpoint it
\* holds.
MaxRuns == 3
\* A page of raw JSON items handed to the normalizer has at most this many.
MaxPage == 2

(***************************************************************************)
(* Python values.                                                          *)
(***************************************************************************)
\* A dict is a function from its keys; {} is the function with no key.
EmptyDict == [k \in {} |-> 0]

\* dict.get(key, default)
Get(d, key, default) == IF key \in DOMAIN d THEN d[key] ELSE default

\* Optional[Dict]: None is the empty set, a dict d is {d}.
None == {}

Some(d) == {d}

TheDict(opt) == CHOOSE d \in opt : TRUE

\* Optional[str]: None is the empty set, a string s is {s}.
TheStr(opt) == CHOOSE s \in opt : TRUE

\* A string the code takes apart is the sequence of its characters.
EmptyStr == <<>>

\* str.replace(old, ""): every occurrence of the character `old` is removed
Replace(s, old) == SelectSeq(s, LAMBDA c : c # old)

\* bool(response_data): None and {} are falsy.
Truthy(opt) == opt # None /\ DOMAIN TheDict(opt) # {}

Min(a, b) == IF a < b THEN a ELSE b

(***************************************************************************)
(* FDAConnector: class constants and __init__.                             *)
(***************************************************************************)
\* FDAConnector.ENDPOINTS
ENDPOINTS ==
    [drug_adverse_events   |-> "/drug/event.json",
     drug_labels           |-> "/drug/label.json",
     device_adverse_events |-> "/device/event.json",
     food_recalls          |-> "/food/enforcement.json",
     drug_recalls          |-> "/drug/enforcement.json"]

\* configuration.get("endpoint", "drug_adverse_events")
DefaultEndpoint == "drug_adverse_events"

ConfiguredEndpoint(cfg) == Get(cfg, "endpoint", DefaultEndpoint)

\* configuration.get("limit_per_request", 100)
DefaultLimit == 100

\* the cap in min(int(...), 1000)
MaxLimit == 1000

\* mutant: a lower bound of 1 on the page size
LimitPerRequest_AtLeastOne(cfg) ==
    LET l == Min(Get(cfg, "limit_per_request", DefaultLimit), MaxLimit)
    IN  IF l < 1 THEN 1 ELSE l

\* self.limit_per_request = min(int(configuration.get("limit_per_request", 100)), 1000)
LimitPerRequest(cfg) == Min(Get(cfg, "limit_per_request", DefaultLimit), MaxLimit)

\* mutant: the endpoint check is missing
EndpointAccepted_Always(endpoint) == TRUE

\* if self.endpoint not in self.ENDPOINTS: raise ValueError
EndpointAccepted(endpoint) == endpoint \in DOMAIN ENDPOINTS

\* configuration.get("api_key"), configuration.get("start_date"): None when
\* the key is absent
GetOptional(cfg, key) == IF key \in DOMAIN cfg THEN Some(cfg[key]) ELSE None

\* the fields __init__ sets
NewConnector(cfg) ==
    [api_key           |-> GetOptional(cfg, "api_key"),
     endpoint          |-> ConfiguredEndpoint(cfg),
     start_date        |-> GetOptional(cfg, "start_date"),
     limit_per_request |-> LimitPerRequest(cfg)]

NoConnector ==
    [api_key |-> None, endpoint |-> "", start_date |-> None,
     limit_per_request |-> 0]

(***************************************************************************)
(* FDAConnector.schema and _extract_record_data.                           *)
(***************************************************************************)
\* schema()["table"]
SchemaTable(endpoint) ==
    CASE endpoint = "drug_adverse_events" -> "fda_drug_adverse_events"
      [] endpoint = "drug_labels"         -> "fda_drug_labels"
      [] endpoint = "food_recalls"        -> "fda_food_recalls"
      [] endpoint = "drug_recalls"        -> "fda_drug_recalls"
      [] OTHER                            -> "fda_device_adverse_events"

\* schema()["primary_key"]
SchemaPrimaryKey(endpoint) ==
    CASE endpoint = "drug_adverse_events" -> <<"safetyreportid">>
      [] endpoint = "drug_labels"         -> <<"id">>
      [] endpoint = "food_recalls"        -> <<"recall_number">>
      [] endpoint = "drug_recalls"        -> <<"recall_number">>
      [] OTHER                            -> <<"mdr_report_key">>

\* the columns of the two recall tables, without distribution_pattern
RecallColumns ==
    [recall_number       |-> "STRING",
     report_date         |-> "STRING",
     product_description |-> "STRING",
     reason_for_recall   |-> "STRING",
     company_name        |-> "STRING",
     classification      |-> "STRING",
     status              |-> "STRING",
     fetched_at          |-> "TIMESTAMP"]

\* schema()["columns"]
SchemaColumns(endpoint) ==
    CASE endpoint = "drug_adverse_events" ->
            [safetyreportid          |-> "STRING",
             receivedate             |-> "STRING",
             patient_age             |-> "FLOAT",
             patient_sex             |-> "STRING",
             serious                 |-> "STRING",
             serious_death           |-> "STRING",
             serious_hospitalization |-> "STRING",
             drug_names              |-> "STRING",
             reactions               |-> "STRING",
             fetched_at              |-> "TIMESTAMP"]
      [] endpoint = "drug_labels" ->
            [id                        |-> "STRING",
             effective_time            |-> "STRING",
             product_name              |-> "STRING",
             generic_name              |-> "STRING",
             manufacturer              |-> "STRING",
             indications_and_usage     |-> "STRING",
             warnings                  |-> "STRING",
             dosage_and_administration |-> "STRING",
             fetched_at                |-> "TIMESTAMP"]
      [] endpoint = "food_recalls" ->
            ("distribution_pattern" :> "STRING") @@ RecallColumns
      [] endpoint = "drug_recalls" -> RecallColumns
      [] OTHER ->
            [mdr_report_key     |-> "STRING",
             report_number      |-> "STRING",
             date_received      |-> "STRING",
             device_name        |-> "STRING",
             manufacturer       |-> "STRING",
             event_type         |-> "STRING",
             adverse_event_flag |-> "STRING",
             patient_problem    |-> "STRING",
             fetched_at         |-> "TIMESTAMP"]

\* schema(): a function of self.endpoint alone
Schema(endpoint) ==
    [table       |-> SchemaTable(endpoint),
     primary_key |-> SchemaPrimaryKey(endpoint),
     columns     |-> SchemaColumns(endpoint)]

\* In the fetch loop a raw item is its position in the source (id) and whether
\* _extract_record_data returns for it (isObject): it does for a JSON object
\* of the expected shape; on a null, a string or a number result.get raises.
\* ExtractRaises and ExtractRecord below are the normalizer on JSON values.
Extractable(item) == item.isObject

ExtractRecordData(item) == [id |-> item.id]

(***************************************************************************)
(* JSON values, as _extract_record_data meets them in a raw item, and the  *)
(* Python operations it applies to them.  A value is a record with one     *)
(* field that names its kind.                                              *)
(***************************************************************************)
JNull == [null |-> TRUE]

JStr(s) == [str |-> s]

JNum(n) == [num |-> n]

JArr(seq) == [arr |-> seq]

JObj(d) == [obj |-> d]

IsNull(v) == DOMAIN v = {"null"}

IsStr(v) == DOMAIN v = {"str"}

IsNum(v) == DOMAIN v = {"num"}

IsArr(v) == DOMAIN v = {"arr"}

IsObj(v) == DOMAIN v = {"obj"}

\* bool(v): None, "", 0, [] and {} are falsy
PyTruthy(v) ==
    CASE IsNull(v) -> FALSE
      [] IsStr(v)  -> v.str # ""
      [] IsNum(v)  -> v.num # 0
      [] IsArr(v)  -> v.arr # <<>>
      [] OTHER     -> DOMAIN v.obj # {}

\* v.get(key, default), for a dict v
DictGet(v, key, default) == Get(v.obj, key, default)

\* `for x in v` works on a list, a str and a dict
Iterable(v) == IsArr(v) \/ IsStr(v) \/ IsObj(v)

\* What the iteration yields: the items of a list; the characters of a str
\* (kept together as one str, none for ""); the keys of a dict, which are
\* strs.
Elements(v) ==
    CASE IsArr(v) -> v.arr
      [] IsStr(v) -> IF v.str = "" THEN <<>> ELSE <<v>>
      [] OTHER    -> LET keys == DOMAIN v.obj
                         order == CHOOSE f \in [1 .. Cardinality(keys) -> keys] :
                                     \A k \in keys : \E i \in DOMAIN f : f[i] = k
                     IN  [i \in DOMAIN order |-> JStr(order[i])]

\* str(v): a str stays what it is, anything else becomes its printed form
Str(v) == IF IsStr(v) THEN v ELSE [repr |-> v]

\* sep.join(v) raises TypeError unless v is iterable and yields only strs
JoinRaises(v) ==
    IF Iterable(v)
    THEN \E i \in DOMAIN Elements(v) : ~IsStr(Elements(v)[i])
    ELSE TRUE

\* sep.join(v): "" for nothing, the str itself for one, else the strs with
\* sep between them
Join(sep, v) ==
    CASE Elements(v) = <<>>    -> JStr("")
      [] Len(Elements(v)) = 1  -> Elements(v)[1]
      [] OTHER                 -> [joined |-> Elements(v), sep |-> sep]

\* [x.get(key, "") for x in v] raises unless v is iterable and yields dicts
EachGetRaises(v) ==
    IF Iterable(v)
    THEN \E i \in DOMAIN Elements(v) : ~IsObj(Elements(v)[i])
    ELSE TRUE

\* [x.get(key, "") for x in v]
EachGet(v, key) ==
    JArr([i \in DOMAIN Elements(v) |-> DictGet(Elements(v)[i], key, JStr(""))])

(***************************************************************************)
(* _extract_record_data(result), branch by branch: when it raises, and the *)
(* dict it returns otherwise.                                              *)
(***************************************************************************)
\* result.get("patient", {})
PatientOf(result) == DictGet(result, "patient", JObj(EmptyDict))

\* drug_adverse_events: result and patient must be dicts, patient's reaction
\* and drug must iterate over dicts
DrugEventRaises(result) ==
    IF ~IsObj(result) THEN TRUE
    ELSE IF ~IsObj(PatientOf(result)) THEN TRUE
    ELSE IF EachGetRaises(DictGet(PatientOf(result), "reaction", JArr(<<>>))) THEN TRUE
    ELSE EachGetRaises(DictGet(PatientOf(result), "drug", JArr(<<>>)))

DrugEventRecord(result, fetched_at) ==
    LET patient == PatientOf(result)
        reactions == EachGet(DictGet(patient, "reaction", JArr(<<>>)), "reactionmeddrapt")
        drugs == EachGet(DictGet(patient, "drug", JArr(<<>>)), "medicinalproduct")
    IN  [safetyreportid |-> DictGet(result, "safetyreportid", JStr("")),
         receivedate    |-> DictGet(result, "receivedate", JStr("")),
         patient_age    |-> IF PyTruthy(DictGet(patient, "patientonsetage", JNull))
                            THEN DictGet(patient, "patientonsetage", JNum(0))
                            ELSE JNull,
         patient_sex    |-> DictGet(patient, "patientsex", JStr("")),
         serious        |-> Str(DictGet(result, "serious", JStr(""))),
         serious_death  |-> Str(DictGet(result, "seriousnessdeath", JStr(""))),
         serious_hospitalization |->
                            Str(DictGet(result, "seriousnesshospitalization", JStr(""))),
         drug_names     |-> Str(drugs),
         reactions      |-> Str(reactions),
         fetched_at     |-> fetched_at]

\* result.get("openfda", {})
OpenFdaOf(result) == DictGet(result, "openfda", JObj(EmptyDict))

\* drug_labels: result and openfda must be dicts, the six joined fields must
\* iterate over strs
DrugLabelRaises(result) ==
    IF ~IsObj(result) THEN TRUE
    ELSE IF ~IsObj(OpenFdaOf(result)) THEN TRUE
    ELSE IF \E key \in {"brand_name", "generic_name", "manufacturer_name"} :
               JoinRaises(DictGet(OpenFdaOf(result), key, JArr(<<>>)))
    THEN TRUE
    ELSE \E key \in {"indications_and_usage", "warnings", "dosage_and_administration"} :
            JoinRaises(DictGet(result, key, JArr(<<>>)))

DrugLabelRecord(result, fetched_at) ==
    LET openfda == OpenFdaOf(result)
    IN  [id             |-> DictGet(result, "id", JStr("")),
         effective_time |-> DictGet(result, "effective_time", JStr("")),
         product_name   |-> Join(", ", DictGet(openfda, "brand_name", JArr(<<>>))),
         generic_name   |-> Join(", ", DictGet(openfda, "generic_name", JArr(<<>>))),
         manufacturer   |-> Join(", ", DictGet(openfda, "manufacturer_name", JArr(<<>>))),
         indications_and_usage |->
                            Join(" ", DictGet(result, "indications_and_usage", JArr(<<>>))),
         warnings       |-> Join(" ", DictGet(result, "warnings", JArr(<<>>))),
         dosage_and_administration |->
                            Join(" ", DictGet(result, "dosage_and_administration", JArr(<<>>))),
         fetched_at     |-> fetched_at]

\* food_recalls, drug_recalls: only result.get is used
RecallRaises(result) == ~IsObj(result)

\* mutant: a field the raw item lacks is left out of the record
RecallRecord_OnlyPresent(endpoint, result, fetched_at) ==
    LET keys == {"recall_number", "report_date", "product_description",
                 "reason_for_recall", "classification", "status"}
                    \cap DOMAIN result.obj
    IN  ("fetched_at" :> fetched_at) @@ [k \in keys |-> result.obj[k]]

RecallRecord(endpoint, result, fetched_at) ==
    [recall_number        |-> DictGet(result, "recall_number", JStr("")),
     report_date          |-> DictGet(result, "report_date", JStr("")),
     product_description  |-> DictGet(result, "product_description", JStr("")),
     reason_for_recall    |-> DictGet(result, "reason_for_recall", JStr("")),
     company_name         |-> DictGet(result, "recalling_firm", JStr("")),
     classification       |-> DictGet(result, "classification", JStr("")),
     status               |-> DictGet(result, "status", JStr("")),
     distribution_pattern |-> IF endpoint = "food_recalls"
                              THEN DictGet(result, "distribution_pattern", JStr(""))
                              ELSE JStr(""),
     fetched_at           |-> fetched_at]

\* result.get("device"), result.get("patient"): None when absent
DeviceOf(result) == DictGet(result, "device", JNull)

DevicePatientOf(result) == DictGet(result, "patient", JNull)

\* device_adverse_events: a truthy device must be a list whose first item is
\* a dict (a str has no dict first, a dict has no key 0, a number no [0]); a
\* truthy patient must iterate over dicts whose patient_problem_code is a str.
\* result.get("device", [{}])[0].get(...) raises otherwise:
DeviceFirstRaises(device) ==
    IF IsArr(device) THEN ~IsObj(device.arr[1]) ELSE TRUE

DevicePatientRaises(patient) ==
    IF EachGetRaises(patient) THEN TRUE
    ELSE JoinRaises(EachGet(patient, "patient_problem_code"))

DeviceEventRaises(result) ==
    IF ~IsObj(result) THEN TRUE
    ELSE IF PyTruthy(DeviceOf(result)) /\ DeviceFirstRaises(DeviceOf(result)) THEN TRUE
    ELSE PyTruthy(DevicePatientOf(result)) /\ DevicePatientRaises(DevicePatientOf(result))

DeviceEventRecord(result, fetched_at) ==
    LET device == DeviceOf(result)
        patient == DevicePatientOf(result)
    IN  [mdr_report_key |-> DictGet(result, "mdr_report_key", JStr("")),
         report_number  |-> DictGet(result, "report_number", JStr("")),
         date_received  |-> DictGet(result, "date_received", JStr("")),
         device_name    |-> IF PyTruthy(device)
                            THEN DictGet(device.arr[1], "generic_name", JStr(""))
                            ELSE JStr(""),
         manufacturer   |-> IF PyTruthy(device)
                            THEN DictGet(device.arr[1], "manufacturer_d_name", JStr(""))
                            ELSE JStr(""),
         event_type     |-> DictGet(result, "event_type", JStr("")),
         adverse_event_flag |-> DictGet(result, "adverse_event_flag", JStr("")),
         patient_problem |-> IF PyTruthy(patient)
                             THEN Join(", ", EachGet(patient, "patient_problem_code"))
                             ELSE JStr(""),
         fetched_at     |-> fetched_at]

\* _extract_record_data(result) raises
ExtractRaises(endpoint, result) ==
    CASE endpoint = "drug_adverse_events"             -> DrugEventRaises(result)
      [] endpoint = "drug_labels"                     -> DrugLabelRaises(result)
      [] endpoint \in {"food_recalls", "drug_recalls"} -> RecallRaises(result)
      [] OTHER                                        -> DeviceEventRaises(result)

\* _extract_record_data(result), fetched_at being datetime.utcnow().isoformat()
ExtractRecord(endpoint, result, fetched_at) ==
    CASE endpoint = "drug_adverse_events" -> DrugEventRecord(result, fetched_at)
      [] endpoint = "drug_labels"         -> DrugLabelRecord(result, fetched_at)
      [] endpoint \in {"food_recalls", "drug_recalls"} ->
                                             RecallRecord(endpoint, result, fetched_at)
      [] OTHER                            -> DeviceEventRecord(result, fetched_at)

(***************************************************************************)
(* Messages yielded by update().                                           *)
(***************************************************************************)
\* mutant: the table of the default endpoint, whatever is configured
UpsertMessage_DefaultTable(endpoint, item) ==
    [type |-> "UPSERT", table |-> Schema(DefaultEndpoint).table,
     data |-> ExtractRecordData(item)]

\* {"type": "UPSERT", "table": self.schema()["table"], "data": record}
UpsertMessage(endpoint, item) ==
    [type |-> "UPSERT", table |-> Schema(endpoint).table, data |-> ExtractRecordData(item)]

StateMessage(newSkip) == [type |-> "STATE", data |-> [skip |-> newSkip]]

(***************************************************************************)
(* update(): the decisions of the fetch loop.                              *)
(***************************************************************************)
\* mutant: the checkpoint handed in is ignored
InitialSkip_Ignored(st) == 0

\* skip = state.get("skip", 0)
InitialSkip(st) == Get(st, "skip", 0)

\* if self.start_date: None and "" are falsy
HasStartDate(c) == c.start_date # None /\ TheStr(c.start_date) # EmptyStr

\* the upper bound written into every date filter
OpenEnd == <<"9", "9", "9", "9", "1", "2", "3", "1">>

\* f"<field>:[{self.start_date.replace('-', '')} TO 99991231]": a range on
\* `field`, both ends included (square brackets)
DateFilter(field, start_date) ==
    [field |-> field, from |-> Replace(start_date, "-"), to |-> OpenEnd,
     inclusive |-> TRUE]

\* "recalls" in self.endpoint or "enforcement" in self.endpoint, over the keys
\* of ENDPOINTS (the test is on the key, not on the URL path)
NamesRecalls(endpoint) == endpoint \in {"food_recalls", "drug_recalls"}

\* mutant: the query always starts at the first item
BuildSearchQuery_NoSkip(c, sk) == [limit |-> c.limit_per_request, skip |-> 0]

\* _build_search_query(skip): {"limit": ..., "skip": skip}, and "search" when
\* start_date is set and the endpoint is one of the two branches
BuildSearchQuery(c, sk) ==
    LET base == [limit |-> c.limit_per_request, skip |-> sk]
    IN  IF ~HasStartDate(c) THEN base
        ELSE IF c.endpoint \in {"drug_adverse_events", "device_adverse_events"}
        THEN ("search" :> DateFilter("receivedate", TheStr(c.start_date))) @@ base
        ELSE IF NamesRecalls(c.endpoint)
        THEN ("search" :> DateFilter("report_date", TheStr(c.start_date))) @@ base
        ELSE base

\* if not response_data or "results" not in response_data: break
NoResultsField(opt) == ~Truthy(opt) \/ "results" \notin DOMAIN TheDict(opt)

\* results = response_data.get("results", [])
ResultsOf(opt) == Get(TheDict(opt), "results", <<>>)

\* mutant: the offset advances by the records yielded, not the items fetched
AdvanceSkip_YieldedOnly(sk, res) ==
    sk + Cardinality({i \in DOMAIN res : res[i].isObject})

\* mutant: `skip = len(results)` for `skip += len(results)`
AdvanceSkip_Assigned(sk, res) == Len(res)

\* mutant: `skip += len(results)` runs twice
AdvanceSkip_Twice(sk, res) == sk + Len(res) + Len(res)

\* skip += len(results)
AdvanceSkip(sk, res) == sk + Len(res)

\* mutant: `<=` for `<`
LastPage_OrFull(c, res) == Len(res) <= c.limit_per_request

\* mutant: the short-page check is missing
LastPage_Never(c, res) == FALSE

\* if len(results) < self.limit_per_request: break
LastPage(c, res) == Len(res) < c.limit_per_request

\* time.sleep(0.5), in tenths of a second
InterPageDelay == 5

(***************************************************************************)
(* _make_request(): what one HTTP answer turns into.                       *)
(***************************************************************************)
\* mutant: the key is never put into the query
WithApiKey_Never(c, p) == p

\* if self.api_key: params["api_key"] = self.api_key  (None and "" are falsy;
\* the dict handed in is the one that is sent)
WithApiKey(c, p) ==
    IF c.api_key # None /\ TheStr(c.api_key) # ""
    THEN ("api_key" :> TheStr(c.api_key)) @@ p
    ELSE p

\* requests.get raised (connection error, timeout): no HTTP status
NetworkError == 0

\* if response.status_code == 429
RateLimitStatus == 429

\* time.sleep(60), in tenths of a second
CooldownDelay == 600

\* mutant: the 429 branch is missing
IsRateLimit_Never(resp) == FALSE

IsRateLimit(resp) == resp.status = RateLimitStatus

\* response.raise_for_status() raises HTTPError for 4xx and 5xx
RaisesForStatus(resp) == resp.status >= 400 /\ resp.status < 600

\* mutant: no try/except around requests.get and raise_for_status
MakeRequestResult_Propagates(resp) ==
    IF resp.status = NetworkError \/ RaisesForStatus(resp)
    THEN [raised |-> TRUE, value |-> None]
    ELSE [raised |-> FALSE, value |-> Some(resp.body)]

\* What _make_request does with an answer that is not a 429: it returns None
\* when requests.get or raise_for_status raised (except RequestException),
\* else response.json(); `raised` says whether an exception leaves it.
MakeRequestResult(resp) ==
    IF resp.status = NetworkError \/ RaisesForStatus(resp)
    THEN [raised |-> FALSE, value |-> None]
    ELSE [raised |-> FALSE, value |-> Some(resp.body)]

(***************************************************************************)
(* The upstream.                                                           *)
(***************************************************************************)
\* The slice a stable source serves for {limit, skip}.  A limit below 1 is
\* outside the API's contract: any prefix of what remains may come back.
Pages(src, p) ==
    IF p.limit >= 1
    THEN {SubSeq(src, p.skip + 1, Min(p.skip + p.limit, Len(src)))}
    ELSE {SubSeq(src, p.skip + 1, m) : m \in Min(p.skip, Len(src)) .. Len(src)}

\* 200 answers: a page of the source, a body without `results`, an empty body.
OkAnswers(src, p) ==
    {[status |-> 200, body |-> [results |-> page]] : page \in Pages(src, p)}
    \cup {[status |-> 200, body |-> [error |-> "x"]],
          [status |-> 200, body |-> EmptyDict]}

\* Answers that make requests.get or raise_for_status raise.
FailedAnswers ==
    {[status |-> NetworkError, body |-> EmptyDict],
     [status |-> 404, body |-> [error |-> "x"]],
     [status |-> 500, body |-> [error |-> "x"]]}

\* The rate-limit answer.
TooManyRequests == [status |-> RateLimitStatus, body |-> [error |-> "x"]]

\* Everything the upstream may answer to one GET.
Answers(src, p) == OkAnswers(src, p) \cup FailedAnswers \cup {TooManyRequests}

(***************************************************************************)
(* The log of HTTP GETs: the query sent, the status answered (Pending      *)
(* while in flight) and the number of items the answer carried.            *)
(***************************************************************************)
Pending == -1

Sent(p) == [params |-> p, status |-> Pending, hasResults |-> FALSE, n |-> 0]

Answered(entry, resp) ==
    [entry EXCEPT !.status = resp.status,
                  !.hasResults = resp.status = 200 /\ "results" \in DOMAIN resp.body,
                  !.n = IF resp.status = 200 /\ "results" \in DOMAIN resp.body
                        THEN Len(resp.body["results"]) ELSE 0]

AnswerLast(log, resp) == [log EXCEPT ![Len(log)] = Answered(log[Len(log)], resp)]

\* the 429 answers in the log
RateLimitAnswers(log) ==
    Cardinality({i \in DOMAIN log : log[i].status = RateLimitStatus})

(***************************************************************************)
(* Inputs.                                                                 *)
(***************************************************************************)
EndpointInputs == DOMAIN ENDPOINTS \cup {"drug_events"}

LimitInputs == {-1, 0, 1, 2, 3, 1000, 1001}

ConfigDict(keys, e, l) ==
    [k \in keys |-> IF k = "endpoint" THEN e ELSE l]

\* The endpoint and the limit do not meet in the code: every endpoint is
\* tried with one limit (or none), every limit with one endpoint (or none).
PageConfigurations ==
    {ConfigDict(keys, pair[1], pair[2]) :
        keys \in SUBSET {"endpoint", "limit_per_request"},
        pair \in {q \in EndpointInputs \X LimitInputs :
                     q[1] = "food_recalls" \/ q[2] = 2}}

\* "2024-01-01" (the date of test_connector.py) and the empty string
StartDateInputs ==
    {<<"2", "0", "2", "4", "-", "0", "1", "-", "0", "1">>, EmptyStr}

ApiKeyInputs == {"k", ""}

\* start_date meets every endpoint (the filter depends on both); api_key
\* meets nothing else in the code and is tried with and without start_date.
FilterConfigurations ==
    {("start_date" :> d) @@ [endpoint |-> e, limit_per_request |-> 2] :
        e \in DOMAIN ENDPOINTS, d \in StartDateInputs}

KeyConfigurations ==
    {("api_key" :> a) @@ cfg :
        a \in ApiKeyInputs,
        cfg \in {[limit_per_request |-> 1]}
                 \cup {c \in FilterConfigurations : c["endpoint"] = "food_recalls"}}

Configurations ==
    PageConfigurations \cup FilterConfigurations \cup KeyConfigurations

Checkpoints == {EmptyDict} \cup {[skip |-> k] : k \in 0 .. MaxItems + 1}

Sources ==
    UNION {{[i \in 1 .. n |-> [id |-> i, isObject |-> shape[i]]] :
                shape \in [1 .. n -> BOOLEAN]} : n \in 0 .. MaxItems}

\* The caller before its first run: no next() yet, no record received, the
\* checkpoint it was given in hand.
NewConsumer(st) ==
    [pulls |-> 0, received |-> <<>>, checkpoint |-> st, first |-> st, runs |-> 1]

\* next(gen): one more pull
Pulled(c) == [c EXCEPT !.pulls = @ + 1]

Init ==
    /\ configuration \in Configurations
    /\ state \in Checkpoints
    /\ source \in Sources
    /\ conn = NoConnector
    /\ pc = "init"
    /\ skip = 0
    /\ total_synced = 0
    /\ params = BuildSearchQuery(NoConnector, 0)
    /\ results = <<>>
    /\ idx = 1
    /\ events = <<>>
    /\ http = <<>>
    /\ sleeps = <<>>
    /\ consumer = NewConsumer(state)

(***************************************************************************)
(* Actions.                                                                *)
(***************************************************************************)
\* mutant: update() is not a generator; calling it runs its body up to the
\* top of the loop
Construct_Eager ==
    /\ pc = "init"
    /\ IF EndpointAccepted(ConfiguredEndpoint(configuration))
       THEN /\ conn' = NewConnector(configuration)
            /\ skip' = InitialSkip(state)
            /\ pc' = "fetch"
       ELSE /\ conn' = conn
            /\ skip' = skip
            /\ pc' = "config_error"
    /\ UNCHANGED <<configuration, state, consumer, source, total_synced, params,
                   results, idx, events, http, sleeps>>

\* connector = FDAConnector(configuration); gen = connector.update(state).
\* Creating the generator runs none of update()'s body.
Construct ==
    /\ pc = "init"
    /\ IF EndpointAccepted(ConfiguredEndpoint(configuration))
       THEN /\ conn' = NewConnector(configuration)
            /\ pc' = "ready"
       ELSE /\ conn' = conn
            /\ pc' = "config_error"
    /\ UNCHANGED <<configuration, state, consumer, source, skip, total_synced, params,
                   results, idx, events, http, sleeps>>

\* First next(gen): update() runs from its first line to the top of the loop.
Start ==
    /\ pc = "ready"
    /\ skip' = InitialSkip(state)
    /\ total_synced' = 0
    /\ pc' = "fetch"
    /\ consumer' = Pulled(consumer)
    /\ UNCHANGED <<configuration, state, source, conn, params, results, idx,
                   events, http, sleeps>>

\* Top of the loop: build the query and issue the GET.
SendRequest ==
    /\ pc = "fetch"
    /\ params' = WithApiKey(conn, BuildSearchQuery(conn, skip))
    /\ http' = Append(http, Sent(params'))
    /\ pc' = "inflight"
    /\ UNCHANGED <<configuration, state, consumer, source, conn, skip, total_synced,
                   results, idx, events, sleeps>>

\* The answer is a 429: _make_request will sleep and call itself.
RateLimited ==
    /\ pc = "inflight"
    /\ \E resp \in Answers(source, params) :
          /\ IsRateLimit(resp)
          /\ http' = AnswerLast(http, resp)
    /\ pc' = "cooldown"
    /\ UNCHANGED <<configuration, state, consumer, source, conn, skip, total_synced,
                   params, results, idx, events, sleeps>>

\* mutant: after MaxRetries 429 answers _make_request gives up and returns
\* None
Retry_Capped ==
    /\ pc = "cooldown"
    /\ params' = WithApiKey(conn, params)
    /\ IF RateLimitAnswers(http) < MaxRetries
       THEN /\ http' = Append(http, Sent(params'))
            /\ sleeps' = Append(sleeps, CooldownDelay)
            /\ pc' = "inflight"
       ELSE /\ http' = http
            /\ sleeps' = sleeps
            /\ pc' = "done"
    /\ UNCHANGED <<configuration, state, consumer, source, conn, skip, total_synced,
                   results, idx, events>>

\* time.sleep(60); return self._make_request(url, params): the same dict
\* goes through _make_request again, from its first line.
Retry ==
    /\ pc = "cooldown"
    /\ params' = WithApiKey(conn, params)
    /\ IF RateLimitAnswers(http) <= MaxRetries
       THEN /\ http' = Append(http, Sent(params'))
            /\ sleeps' = Append(sleeps, CooldownDelay)
       ELSE /\ http' = [http EXCEPT ![Len(http)] = Sent(params')]
            /\ sleeps' = sleeps
    /\ pc' = "inflight"
    /\ UNCHANGED <<configuration, state, consumer, source, conn, skip, total_synced,
                   results, idx, events>>

\* Any other answer: _make_request returns (or raises), and update() breaks
\* out of the loop or starts on the page.
Received(resp) ==
    LET outcome == MakeRequestResult(resp)
        response_data == outcome.value
    IN
    /\ http' = AnswerLast(http, resp)
    /\ IF outcome.raised
       THEN /\ pc' = "raised"
            /\ UNCHANGED <<results, idx>>
       ELSE IF NoResultsField(response_data) \/ ResultsOf(response_data) = <<>>
       THEN /\ pc' = "done"
            /\ UNCHANGED <<results, idx>>
       ELSE /\ results' = ResultsOf(response_data)
            /\ idx' = 1
            /\ pc' = "items"
    /\ UNCHANGED <<configuration, state, consumer, source, conn, skip, total_synced,
                   params, events, sleeps>>

\* The upstream answers 200.
PageReceived ==
    /\ pc = "inflight"
    /\ \E resp \in Answers(source, params) :
          /\ ~IsRateLimit(resp)
          /\ resp.status = 200
          /\ Received(resp)

\* requests.get raises, or the status is neither 200 nor a handled 429.
FetchFailed ==
    /\ pc = "inflight"
    /\ \E resp \in Answers(source, params) :
          /\ ~IsRateLimit(resp)
          /\ resp.status # 200
          /\ Received(resp)

\* for result in results: the item maps to a record, which is yielded.
EmitUpsert ==
    /\ pc = "items"
    /\ idx <= Len(results)
    /\ Extractable(results[idx])
    /\ events' = Append(events, UpsertMessage(conn.endpoint, results[idx]))
    /\ pc' = "yield_upsert"
    /\ consumer' = [consumer EXCEPT !.received = Append(@, results[idx].id)]
    /\ UNCHANGED <<configuration, state, source, conn, skip, total_synced,
                   params, results, idx, http, sleeps>>

\* next(gen) after an UPSERT: total_synced += 1, on to the next item.
ResumeAfterUpsert ==
    /\ pc = "yield_upsert"
    /\ total_synced' = total_synced + 1
    /\ idx' = idx + 1
    /\ pc' = "items"
    /\ consumer' = Pulled(consumer)
    /\ UNCHANGED <<configuration, state, source, conn, skip, params, results,
                   events, http, sleeps>>

\* _extract_record_data raises: except Exception ... continue.
SkipItem ==
    /\ pc = "items"
    /\ idx <= Len(results)
    /\ ~Extractable(results[idx])
    /\ idx' = idx + 1
    /\ UNCHANGED <<configuration, state, consumer, source, conn, pc, skip, total_synced,
                   params, results, events, http, sleeps>>

\* mutant: the offset is written into the dict handed in (state["skip"] =
\* skip) and that one dict is yielded in every STATE message
EmitState_InPlace ==
    /\ pc = "items"
    /\ idx > Len(results)
    /\ skip' = AdvanceSkip(skip, results)
    /\ state' = [skip |-> skip']
    /\ events' = Append([i \in DOMAIN events |->
                            IF events[i].type = "STATE"
                            THEN [events[i] EXCEPT !.data = state']
                            ELSE events[i]],
                        [type |-> "STATE", data |-> state'])
    /\ pc' = "yield_state"
    /\ consumer' = [consumer EXCEPT !.checkpoint = state']
    /\ UNCHANGED <<configuration, source, conn, total_synced, params,
                   results, idx, http, sleeps>>

\* After the for loop: skip += len(results); yield the STATE message.
EmitState ==
    /\ pc = "items"
    /\ idx > Len(results)
    /\ skip' = AdvanceSkip(skip, results)
    /\ events' = Append(events, StateMessage(skip'))
    /\ pc' = "yield_state"
    /\ consumer' = [consumer EXCEPT !.checkpoint = StateMessage(skip').data]
    /\ UNCHANGED <<configuration, state, source, conn, total_synced, params,
                   results, idx, http, sleeps>>

\* next(gen) after a STATE: the short-page check, else time.sleep(0.5).
ResumeAfterState ==
    /\ pc = "yield_state"
    /\ IF LastPage(conn, results)
       THEN /\ pc' = "done"
            /\ sleeps' = sleeps
       ELSE /\ pc' = "fetch"
            /\ sleeps' = Append(sleeps, InterPageDelay)
    /\ consumer' = Pulled(consumer)
    /\ UNCHANGED <<configuration, state, source, conn, skip, total_synced,
                   params, results, idx, events, http>>

\* The consumer stops pulling: it can only do so while the generator is
\* suspended (not yet started, or at a yield).
Cancel ==
    /\ pc \in {"ready", "yield_upsert", "yield_state"}
    /\ pc' = "closed"
    /\ UNCHANGED <<configuration, state, consumer, source, conn, skip, total_synced,
                   params, results, idx, events, http, sleeps>>

Next ==
    \/ Construct
    \/ Start
    \/ SendRequest
    \/ RateLimited
    \/ Retry
    \/ PageReceived
    \/ FetchFailed
    \/ EmitUpsert
    \/ ResumeAfterUpsert
    \/ SkipItem
    \/ EmitState
    \/ ResumeAfterState
    \/ Cancel

Spec == Init /\ [][Next]_vars

\* The program keeps running: whenever some step is possible (the consumer
\* pulling or stopping, the generator's next statement, the upstream's
\* answer), a step is eventually taken.
FairSpec == Init /\ [][Next]_vars /\ WF_vars(Next)

(***************************************************************************)
(* Several runs: the consumer calls update(configuration, state) again     *)
(* with the last checkpoint it received.                                   *)
(***************************************************************************)
\* update(configuration, state) once the previous generator has returned or
\* was dropped: a new connector, a new generator, nothing of the old one.
Resume ==
    /\ pc \in {"closed", "done"}
    /\ consumer.runs < MaxRuns
    /\ state' = consumer.checkpoint
    /\ consumer' = [consumer EXCEPT !.runs = @ + 1, !.pulls = 0]
    /\ conn' = NewConnector(configuration)
    /\ pc' = "ready"
    /\ skip' = 0
    /\ total_synced' = 0
    /\ params' = BuildSearchQuery(NoConnector, 0)
    /\ results' = <<>>
    /\ idx' = 1
    /\ events' = <<>>
    /\ http' = <<>>
    /\ sleeps' = <<>>
    /\ UNCHANGED <<configuration, source>>

NextResume ==
    \/ Next
    \/ Resume

\* Resumption does not depend on the endpoint, the filter or the key.
ResumeConfigurations == {[limit_per_request |-> l] : l \in {1, 2}}

InitResume ==
    /\ Init
    /\ configuration \in ResumeConfigurations

SpecResume == InitResume /\ [][NextResume]_vars

(***************************************************************************)
(* The normalizer on its own: the for loop of update() over one page of    *)
(* raw JSON items, for every endpoint.                                     *)
(***************************************************************************)
\* Raw items: not an object; an object with nothing in it; one well-formed
\* item per endpoint; items with a null, a number or a list where the code
\* of one endpoint or another expects something else.
RawItems ==
    {JNull,
     JStr("x"),
     JObj(EmptyDict),
     JObj([safetyreportid |-> JStr("1"), receivedate |-> JStr("20240101"),
           serious |-> JNum(1),
           patient |-> JObj([patientonsetage |-> JNum(30),
                             patientsex |-> JStr("2"),
                             reaction |-> JArr(<<JObj([reactionmeddrapt |-> JStr("Nausea")])>>),
                             drug |-> JArr(<<JObj([medicinalproduct |-> JStr("A")]),
                                             JObj(EmptyDict)>>)])]),
     JObj([safetyreportid |-> JStr("2"), patient |-> JNull]),
     JObj([id |-> JStr("a"), effective_time |-> JStr("20240101"),
           openfda |-> JObj([brand_name |-> JArr(<<JStr("B"), JStr("C")>>),
                             generic_name |-> JStr("g")]),
           warnings |-> JArr(<<JStr("w")>>)]),
     JObj([id |-> JStr("b"), openfda |-> JObj([brand_name |-> JArr(<<JNum(1)>>)])]),
     JObj([recall_number |-> JStr("F-1"), report_date |-> JStr("20240101"),
           recalling_firm |-> JStr("Acme"), distribution_pattern |-> JStr("US")]),
     JObj([mdr_report_key |-> JStr("7"),
           device |-> JArr(<<JObj([generic_name |-> JStr("pump")])>>),
           patient |-> JArr(<<JObj([patient_problem_code |-> JStr("p")]),
                              JObj(EmptyDict)>>)]),
     JObj([mdr_report_key |-> JStr("8"), device |-> JArr(<<JNull>>)])}

\* Readings of the clock in datetime.utcnow().isoformat()
Timestamps == {JStr("t1"), JStr("t2")}

RawPages == UNION {[1 .. n -> RawItems] : n \in 1 .. MaxPage}

\* A connector for each endpoint, at the top of the for loop over a page.
InitExtract ==
    /\ configuration \in {[endpoint |-> e] : e \in DOMAIN ENDPOINTS}
    /\ state = EmptyDict
    /\ source = <<>>
    /\ conn = NewConnector(configuration)
    /\ pc = "items"
    /\ skip = 0
    /\ total_synced = 0
    /\ params = BuildSearchQuery(conn, 0)
    /\ results \in RawPages
    /\ idx = 1
    /\ events = <<>>
    /\ http = <<>>
    /\ sleeps = <<>>
    /\ consumer = NewConsumer(state)

\* One turn of the for loop in which _extract_record_data returns: the
\* record is yielded and, on the next pull, total_synced += 1.
NormalizeItem ==
    /\ pc = "items"
    /\ idx <= Len(results)
    /\ ~ExtractRaises(conn.endpoint, results[idx])
    /\ \E fetched_at \in Timestamps :
          events' = Append(events,
                           [type  |-> "UPSERT",
                            table |-> Schema(conn.endpoint).table,
                            data  |-> ExtractRecord(conn.endpoint, results[idx],
                                                    fetched_at)])
    /\ total_synced' = total_synced + 1
    /\ idx' = idx + 1
    /\ UNCHANGED <<configuration, state, consumer, source, conn, pc, skip, params,
                   results, http, sleeps>>

\* One turn in which it raises: except Exception ... continue.
RejectItem ==
    /\ pc = "items"
    /\ idx <= Len(results)
    /\ ExtractRaises(conn.endpoint, results[idx])
    /\ idx' = idx + 1
    /\ UNCHANGED <<configuration, state, consumer, source, conn, pc, skip,
                   total_synced, params, results, events, http, sleeps>>

NextExtract ==
    \/ NormalizeItem
    \/ RejectItem

SpecExtract == InitExtract /\ [][NextExtract]_vars

(***************************************************************************)
(* Vocabulary of the properties.                                           *)
(***************************************************************************)
N == Len(source)

\* the effective page size
P == conn.limit_per_request

\* the offset of the checkpoint the caller handed in (0 for an empty one)
K == IF "skip" \in DOMAIN state THEN state["skip"] ELSE 0

Upserts(evs) == SelectSeq(evs, LAMBDA e : e.type = "UPSERT")

StateMessages(evs) == SelectSeq(evs, LAMBDA e : e.type = "STATE")

UpsertIds(evs) == [i \in 1 .. Len(Upserts(evs)) |-> Upserts(evs)[i].data.id]

StateOffsets(evs) == [i \in 1 .. Len(StateMessages(evs)) |-> StateMessages(evs)[i].data.skip]

\* the ids of the items of a slice that map to a record, in order
GoodIds(slice) ==
    LET good == SelectSeq(slice, LAMBDA it : it.isObject)
    IN  [i \in 1 .. Len(good) |-> good[i].id]

CeilDiv(a, b) == (a + b - 1) \div b

\* No GET of the run was answered by a failure or by a body without `results`
\* (429 answers, which are retried, are not failures).
FaultFree ==
    \A i \in DOMAIN http :
        \/ http[i].status \in {Pending, RateLimitStatus}
        \/ http[i].status = 200 /\ http[i].hasResults

\* The run went through: the generator returned, after no failed fetch, with
\* a page size the upstream's contract covers.
Completed == pc = "done" /\ FaultFree /\ P >= 1

(***************************************************************************)
(* C1: for a stable source of N items, page size P >= 1, an empty initial  *)
(* checkpoint and no fetch failure, a completed run has yielded ceil(N/P)  *)
(* STATE messages and one UPSERT per item that maps to a record, and the   *)
(* last STATE carries offset N.                                            *)
(***************************************************************************)
C1_PaginationTermination ==
    (Completed /\ state = EmptyDict) =>
        /\ Len(StateOffsets(events)) = CeilDiv(N, P)
        /\ Len(Upserts(events)) = Len(GoodIds(source))
        /\ N > 0 => StateOffsets(events)[Len(StateOffsets(events))] = N

\* three items in pages of two: pages [2, 1], offsets [2, 3]
C1_Witness ==
    /\ Completed /\ state = EmptyDict
    /\ N = 3 /\ P = 2
    /\ StateOffsets(events) = <<2, 3>>

(***************************************************************************)
(* C2: a completed run from checkpoint {skip: k}, 0 <= k <= N, yields      *)
(* exactly the records of source positions k+1 .. N (1-based) in order:    *)
(* the full run's record sequence (k = 0) with the records of the first k  *)
(* positions removed.                                                      *)
(***************************************************************************)
C2_IdempotentResume ==
    (Completed /\ K <= N) =>
        UpsertIds(events) = GoodIds(SubSeq(source, K + 1, N))

C2_Witness ==
    /\ Completed /\ state = [skip |-> 1]
    /\ N = 3
    /\ UpsertIds(events) = <<2, 3>>

\* a 200 answer whose `results` is shorter than the limit asked for
ShortPage(entry) ==
    entry.status = 200 /\ entry.hasResults /\ entry.n < entry.params.limit

(***************************************************************************)
(* C3: a page with fewer than page_size items is the last one fetched and  *)
(* ends the sequence: no GET follows it, the generator returns at the next *)
(* pull after its STATE, and an empty page returns at once.                *)
(***************************************************************************)
C3_ShortPageTerminates ==
    \A i \in DOMAIN http :
        ShortPage(http[i]) =>
            /\ i = Len(http)
            /\ pc \in {"items", "yield_upsert", "yield_state", "done", "closed"}
            /\ http[i].n = 0 => pc = "done"
            /\ (pc = "done" /\ http[i].n > 0) =>
                   events[Len(events)] = StateMessage(http[i].params.skip + http[i].n)

\* the source ran out exactly at a page boundary: a full page, then an empty one
C3_Witness ==
    /\ Len(http) >= 2
    /\ http[Len(http) - 1].status = 200
    /\ http[Len(http) - 1].n = http[Len(http) - 1].params.limit
    /\ http[Len(http)].status = 200 /\ http[Len(http)].hasResults
    /\ http[Len(http)].n = 0
    /\ http[Len(http)].params.skip = N /\ N > 0
    /\ pc = "done"

\* the position of the last STATE message (0 if none)
LastStateIndex(evs) ==
    LET at == {i \in DOMAIN evs : evs[i].type = "STATE"}
    IN  IF at = {} THEN 0 ELSE CHOOSE i \in at : \A j \in at : j <= i

\* the messages yielded for the page being processed, its STATE excluded
PageMessages ==
    LET body == IF pc = "yield_state" THEN SubSeq(events, 1, Len(events) - 1) ELSE events
    IN  SubSeq(body, LastStateIndex(body) + 1, Len(body))

\* the items of the page the for loop has dealt with
PageItemsDone ==
    CASE pc = "items"        -> SubSeq(results, 1, idx - 1)
      [] pc = "yield_upsert" -> SubSeq(results, 1, idx)
      [] OTHER               -> results

BadItems(page) == {i \in DOMAIN page : ~page[i].isObject}

(***************************************************************************)
(* C4: a raw item that fails normalization is skipped and nothing else:    *)
(* the page's other items, before and after it, are yielded in order (M-1  *)
(* UPSERTs for one bad item among M), the page is carried to its STATE,    *)
(* and the offset advances by M, the bad item included.                    *)
(***************************************************************************)
C4_MalformedItemSkipped ==
    /\ pc \in {"items", "yield_upsert", "yield_state"} =>
          /\ \A i \in DOMAIN PageMessages : PageMessages[i].type = "UPSERT"
          /\ UpsertIds(PageMessages) = GoodIds(PageItemsDone)
    /\ pc = "yield_state" =>
          /\ Cardinality(BadItems(results)) = 1 =>
                 Len(PageMessages) = Len(results) - 1
          /\ skip = params.skip + Len(results)
          /\ events[Len(events)] = StateMessage(params.skip + Len(results))
    \* the run never ends between a page's arrival and its STATE
    /\ (pc = "done" /\ http # <<>> /\ http[Len(http)].n > 0) =>
          events # <<>> /\ events[Len(events)].type = "STATE"

\* a page of three whose middle item is malformed
C4_Witness ==
    /\ pc = "yield_state"
    /\ Len(results) = 3 /\ BadItems(results) = {2}
    /\ UpsertIds(PageMessages) = <<1, 3>>
    /\ skip = K + 3

\* The messages of the undisturbed run from offset k: one UPSERT per item
\* that maps to a record, one STATE after every pageSize-th item and after
\* the last item.
RECURSIVE UndisturbedRun(_, _, _, _, _)
UndisturbedRun(src, endpoint, pageSize, k, p) ==
    IF p > Len(src)
    THEN <<>>
    ELSE (IF src[p].isObject
          THEN <<[type |-> "UPSERT", table |-> SchemaTable(endpoint),
                  data |-> [id |-> src[p].id]]>>
          ELSE <<>>)
         \o (IF (p - k) % pageSize = 0 \/ p = Len(src)
             THEN <<[type |-> "STATE", data |-> [skip |-> p]]>>
             ELSE <<>>)
         \o UndisturbedRun(src, endpoint, pageSize, k, p + 1)

Count(seq, x) == Cardinality({i \in DOMAIN seq : seq[i] = x})

(***************************************************************************)
(* C5: 429 answers are transparent: a completed run whose GETs were        *)
(* answered 429 any number of times before their 200 has yielded exactly   *)
(* the messages of the run in which every first attempt is answered 200,   *)
(* and has slept one cooldown per 429 answer.                              *)
(***************************************************************************)
C5_RateLimitTransparent ==
    Completed =>
        /\ events = UndisturbedRun(source, conn.endpoint, P, K, K + 1)
        /\ Count(sleeps, CooldownDelay) = RateLimitAnswers(http)

\* one 429, then the 200, on a run that yields something
C5_Witness ==
    /\ Completed
    /\ RateLimitAnswers(http) = 1
    /\ Count(sleeps, CooldownDelay) = 1
    /\ Len(Upserts(events)) >= 2

(***************************************************************************)
(* C6: given a non-negative initial offset, the offsets of the STATE       *)
(* messages are non-negative integers, never below the initial offset and  *)
(* never decreasing, and so is the loop's own `skip`.                      *)
(***************************************************************************)
C6_OffsetMonotone ==
    LET offs == StateOffsets(events) IN
    /\ \A i \in DOMAIN offs :
          /\ offs[i] \in Nat
          /\ offs[i] >= K
          /\ i > 1 => offs[i] >= offs[i - 1]
    /\ pc \in {"fetch", "inflight", "cooldown", "items", "yield_upsert",
               "yield_state", "done"} => skip \in Nat /\ skip >= K
    /\ offs # <<>> => skip >= offs[Len(offs)]

C6_Witness ==
    /\ K = 1
    /\ Len(StateOffsets(events)) >= 2
    /\ StateOffsets(events)[1] < StateOffsets(events)[2]

\* the generator returned, raised, was abandoned, or was never created
Terminal == pc \in {"done", "closed", "config_error", "raised"}

(***************************************************************************)
(* C7: update() yields a finite sequence whatever the upstream does: the   *)
(* run always eventually reaches a terminal state, and every message it    *)
(* yields is an UPSERT or a STATE.                                         *)
(***************************************************************************)
C7_FiniteSequence ==
    /\ <>Terminal
    /\ [](\A i \in DOMAIN events : events[i].type \in {"UPSERT", "STATE"})

\* an answer that is a failure, has no `results`, or has an empty `results`
TerminatingAnswer(entry) ==
    /\ entry.status \notin {Pending, RateLimitStatus}
    /\ entry.status # 200 \/ ~entry.hasResults \/ entry.n = 0

(***************************************************************************)
(* C8: a fetch answered by a transport failure other than 429, by a body   *)
(* without `results` or by an empty `results` ends the run normally: the   *)
(* generator returns, no exception reaches the consumer, and no further    *)
(* GET is issued.                                                          *)
(***************************************************************************)
C8_FailedFetchEndsRun ==
    /\ pc # "raised"
    /\ \A i \in DOMAIN http :
          TerminatingAnswer(http[i]) => i = Len(http) /\ pc = "done"

\* a server error on the second page, after the first was delivered
C8_Witness ==
    /\ Len(http) >= 2
    /\ http[Len(http)].status = 500
    /\ http[1].status = 200 /\ http[1].n > 0
    /\ events # <<>>
    /\ pc = "done"

\* the five endpoints the connector supports
SupportedEndpoints ==
    {"drug_adverse_events", "drug_labels", "device_adverse_events",
     "food_recalls", "drug_recalls"}

(***************************************************************************)
(* C9: an endpoint that is not one of the five supported ones makes the    *)
(* construction fail at once, before any GET; a supported one is accepted. *)
(***************************************************************************)
C9_UnknownEndpointRejected ==
    "endpoint" \in DOMAIN configuration =>
        IF configuration["endpoint"] \in SupportedEndpoints
        THEN pc # "config_error"
        ELSE pc \in {"init", "config_error"} /\ http = <<>> /\ events = <<>>

C9_Witness ==
    /\ "endpoint" \in DOMAIN configuration
    /\ configuration["endpoint"] = "drug_events"
    /\ pc = "config_error"

\* FDAConnector(configuration) returned a connector
Constructed == pc \notin {"init", "config_error"}

(***************************************************************************)
(* C10: the effective page size is a positive integer, equal to            *)
(* min(configured page_size, 1000) and to 100 when none is configured, and *)
(* no request carries a limit above 1000.                                  *)
(***************************************************************************)
C10_EffectivePageSize ==
    /\ Constructed =>
          /\ P \in Nat /\ P > 0
          /\ "limit_per_request" \in DOMAIN configuration =>
                 P = (IF configuration["limit_per_request"] < 1000
                      THEN configuration["limit_per_request"] ELSE 1000)
          /\ "limit_per_request" \notin DOMAIN configuration => P = 100
    /\ \A i \in DOMAIN http : http[i].params.limit <= 1000

(***************************************************************************)
(* The date filter and the credential.                                     *)
(***************************************************************************)
\* The date column schema() declares for the endpoint's table.
SchemaDateColumn(endpoint) ==
    CASE endpoint = "drug_adverse_events" -> "receivedate"
      [] endpoint = "drug_labels"         -> "effective_time"
      [] endpoint = "food_recalls"        -> "report_date"
      [] endpoint = "drug_recalls"        -> "report_date"
      [] OTHER                            -> "date_received"

\* A start date is configured: the key is there and holds a date.
StartDateSet == "start_date" \in DOMAIN configuration /\ configuration["start_date"] # <<>>

(* C11: for every supported endpoint, when a start date is configured every
   page request carries a range filter on that endpoint's date field, from
   the start date (inclusive) to the open end; when none is configured no
   request carries a filter. *)
C11_DateFilterRule ==
    \A i \in DOMAIN http :
        LET q == http[i].params
        IN  IF StartDateSet
            THEN /\ "search" \in DOMAIN q
                 /\ q["search"].field = SchemaDateColumn(conn.endpoint)
                 /\ q["search"].from =
                        SelectSeq(configuration["start_date"], LAMBDA c : c # "-")
                 /\ q["search"].inclusive
                 /\ q["search"].to = <<"9", "9", "9", "9", "1", "2", "3", "1">>
            ELSE "search" \notin DOMAIN q

\* A credential is configured: the key is there and is not the empty token.
ApiKeySet == "api_key" \in DOMAIN configuration /\ configuration["api_key"] # ""

(* C12: when a credential is configured every HTTP request of the run carries
   it, the retries after a 429 included; when none is configured no request
   carries one. *)
C12_CredentialForwarded ==
    \A i \in DOMAIN http :
        LET q == http[i].params
        IN  IF ApiKeySet
            THEN "api_key" \in DOMAIN q /\ q["api_key"] = configuration["api_key"]
            ELSE "api_key" \notin DOMAIN q

\* A keyed run whose second GET is the retry of a 429.
C12_Witness ==
    /\ ApiKeySet
    /\ Len(http) >= 2
    /\ http[1].status = 429
    /\ http[2].params["api_key"] = configuration["api_key"]

(***************************************************************************)
(* Ordering.                                                               *)
(***************************************************************************)
\* The GETs that were answered with a page of at least one item.
PageEntries(log) == {i \in DOMAIN log : log[i].status = 200 /\ log[i].n > 0}

\* The GETs still waiting for their answer.
InFlight(log) == {i \in DOMAIN log : log[i].status = Pending}

(* C13: Upserts come in upstream order; pages are fetched one after the
   other at increasing offsets, with at most one GET in flight; a GET that
   follows a page is issued only after that page's checkpoint was emitted,
   and at the offset of that checkpoint. *)
C13_SequentialOrdering ==
    LET ids == UpsertIds(events)
        offsets == StateOffsets(events)
        pages == PageEntries(http)
    IN
    /\ \A i, j \in DOMAIN ids : i < j => ids[i] < ids[j]
    /\ Cardinality(InFlight(http)) <= 1
    /\ InFlight(http) \subseteq {Len(http)}
    /\ (InFlight(http) # {}) <=> (pc = "inflight")
    /\ \A i, j \in DOMAIN http :
           i < j => /\ http[i].params.skip <= http[j].params.skip
                    /\ i \in pages => http[i].params.skip < http[j].params.skip
    /\ \A j \in DOMAIN http :
           LET before == Cardinality({i \in pages : i < j})
           IN  before > 0 =>
                  /\ Len(offsets) >= before
                  /\ http[j].params.skip = offsets[before]
    /\ pc \in {"fetch", "inflight", "cooldown"} /\ events # <<>> =>
           /\ events[Len(events)].type = "STATE"
           /\ Len(offsets) = Cardinality(pages)

\* The second page is being fetched after a first page of two records.
C13_Witness ==
    /\ pc = "inflight"
    /\ Len(http) = 2
    /\ http[1].status = 200 /\ http[1].n = 2
    /\ Len(Upserts(events)) = 2
    /\ http[2].params.skip = http[1].params.skip + 2

(***************************************************************************)
(* Delivery across runs.                                                   *)
(***************************************************************************)
\* The offset of a checkpoint dict (0 for an empty one).
OffsetOf(checkpoint) ==
    IF "skip" \in DOMAIN checkpoint THEN checkpoint["skip"] ELSE 0

\* The consumer has received the record of the item at upstream position p.
Delivered(p) == \E i \in DOMAIN consumer.received : consumer.received[i] = p

(* C14: at-least-once delivery.  Whatever the consumer's checkpoint covers
   beyond the checkpoint of its first run has been delivered to it; every
   run starts from the checkpoint the consumer held; and a run that reaches
   the end of a stable source has emitted every record its own checkpoint
   did not cover, so that after any number of cancel/resume cycles nothing
   is left undelivered.  (A record is a well-formed item.) *)
C14_AtLeastOnce ==
    /\ \A p \in 1 .. N :
           /\ OffsetOf(consumer.first) < p
           /\ p <= OffsetOf(consumer.checkpoint)
           /\ source[p].isObject
           => Delivered(p)
    /\ K <= OffsetOf(consumer.checkpoint)
    /\ StateMessages(events) = <<>> => state = consumer.checkpoint
    /\ Completed =>
           \A p \in 1 .. N :
               source[p].isObject =>
                  /\ K < p => \E i \in DOMAIN events :
                                  /\ events[i].type = "UPSERT"
                                  /\ events[i].data.id = p
                  /\ OffsetOf(consumer.first) < p => Delivered(p)

\* The third run, after two interrupted ones, reaches the end of a source of
\* MaxItems records having delivered one of them twice.
C14_Witness ==
    /\ Completed
    /\ consumer.runs = 3
    /\ N = MaxItems
    /\ OffsetOf(consumer.first) = 0
    /\ K > 0
    /\ \A p \in 1 .. N : source[p].isObject
    /\ \E i, j \in DOMAIN consumer.received :
           i < j /\ consumer.received[i] = consumer.received[j]

(***************************************************************************)
(* Laziness.                                                               *)
(***************************************************************************)
\* The generator is executing: a next() of the consumer has not returned.
Running == pc \in {"fetch", "inflight", "cooldown", "items"}

\* The consumer has the control: before its first next(), or holding the
\* message of a yield.
Suspended == pc \in {"ready", "yield_upsert", "yield_state"}

(* C15: the run works only while a pull of the consumer is outstanding:
   nothing is fetched or emitted before the first pull, every event answers
   one pull, no GET is in flight while the consumer holds an event, a STATE
   is emitted only after the consumer pulled past every event before it, and
   once the consumer has stopped pulling no further GET is issued and no
   further event is emitted. *)
C15_LazyCancellation ==
    /\ [](/\ pc \in {"init", "config_error", "ready"} =>
                consumer.pulls = 0 /\ events = <<>> /\ http = <<>>
          /\ Suspended \/ pc = "closed" =>
                /\ Len(events) = consumer.pulls
                /\ \A i \in DOMAIN http : http[i].status # Pending
          /\ Running \/ pc = "done" => Len(events) = consumer.pulls - 1
          /\ \A i \in DOMAIN events :
                events[i].type = "STATE" => consumer.pulls >= i)
    /\ [][pc = "closed" => UNCHANGED <<pc, events, http, sleeps>>]_vars

\* The test's consumer: it stopped after the third UPSERT of the first page;
\* one GET was made and no STATE was emitted.
C15_Witness ==
    /\ pc = "closed"
    /\ consumer.pulls = 3
    /\ Len(events) = 3
    /\ \A i \in DOMAIN events : events[i].type = "UPSERT"
    /\ Len(http) = 1

(***************************************************************************)
(* Failure and exhaustion.                                                 *)
(***************************************************************************)
\* The last GET failed (no 429) or was answered without `results`.
LastFetchFailed ==
    /\ http # <<>>
    /\ http[Len(http)].status \notin {Pending, RateLimitStatus}
    /\ http[Len(http)].status # 200 \/ ~http[Len(http)].hasResults

\* The last GET was answered 200 with an empty `results` list.
LastFetchEmpty ==
    /\ http # <<>>
    /\ http[Len(http)].status = 200
    /\ http[Len(http)].hasResults
    /\ http[Len(http)].n = 0

\* The source cut off at offset k: it has no more items from k on.
EndingAt(src, k) == SubSeq(src, 1, Min(k, Len(src)))

(* C16: a run whose fetch at offset k fails, or is answered without
   `results`, ends as the run against the source that has no item from
   offset k on: the generator returns (nothing is raised) and the events are
   exactly those of that run; and a run that legitimately finds the source
   empty at offset k ends in the same way with those same events. *)
C16_FailureLooksLikeExhaustion ==
    P >= 1 =>
        /\ LastFetchFailed =>
              /\ pc = "done"
              /\ events = UndisturbedRun(EndingAt(source, http[Len(http)].params.skip),
                                         conn.endpoint, P, K, K + 1)
        /\ LastFetchEmpty /\ FaultFree =>
              /\ pc = "done"
              /\ source = EndingAt(source, http[Len(http)].params.skip)
              /\ events = UndisturbedRun(source, conn.endpoint, P, K, K + 1)

\* The second fetch fails while the source still has an item to serve; the
\* first page was delivered.
C16_Witness ==
    /\ LastFetchFailed
    /\ Len(http) = 2
    /\ http[2].params.skip < N
    /\ Len(Upserts(events)) = 2
    /\ pc = "done"

(***************************************************************************)
(* Determinism.                                                            *)
(***************************************************************************)
\* The page the i-th GET asks for: 1 for the first GET, one more after every
\* GET that was not answered 429 (a retry asks for the same page).
PageNo(i) ==
    Cardinality({j \in 1 .. i : j = 1 \/ http[j - 1].status # RateLimitStatus})

\* seq is an initial part of full
IsPrefix(seq, full) ==
    Len(seq) <= Len(full) /\ seq = SubSeq(full, 1, Len(seq))

(* C17: against a stable source that answers every page, the requests and
   the events of a run are determined by the configuration, the checkpoint
   and the source: the GET for page m asks for offset K + (m - 1) * P with
   the same limit and the same other parameters as every other GET, and the
   events are an initial part of one fixed sequence (all of it once the run
   has ended), so two such runs issue the same requests and emit the same
   events. *)
C17_Determinism ==
    FaultFree /\ P >= 1 =>
        LET run == UndisturbedRun(source, conn.endpoint, P, K, K + 1) IN
        /\ \A i \in DOMAIN http :
               /\ http[i].params.skip = K + (PageNo(i) - 1) * P
               /\ http[i].params.limit = P
               /\ DOMAIN http[i].params = DOMAIN http[1].params
               /\ \A key \in DOMAIN http[i].params \ {"skip"} :
                      http[i].params[key] = http[1].params[key]
        /\ IsPrefix(events, run)
        /\ pc = "done" => events = run

\* A finished run of two pages, one GET of which had to be retried, with a
\* date filter on every request.
C17_Witness ==
    /\ Completed
    /\ Len(http) = 3
    /\ PageNo(3) = 2
    /\ "search" \in DOMAIN http[3].params
    /\ Len(Upserts(events)) >= 2

(***************************************************************************)
(* The shape of the messages.                                              *)
(***************************************************************************)
\* the endpoint the configuration selects
SourceKey ==
    IF "endpoint" \in DOMAIN configuration
    THEN configuration["endpoint"] ELSE "drug_adverse_events"

(* C18: every UPSERT message carries the table that schema() gives for the
   configured endpoint, and the record of one item of the source; every
   STATE message carries the offset and nothing else; the table is the same
   for every message of the run, whatever the checkpoint and however many
   pages were processed. *)
C18_EventWireShape ==
    \A i \in DOMAIN events :
        IF events[i].type = "UPSERT"
        THEN /\ DOMAIN events[i] = {"type", "table", "data"}
             /\ events[i].table = Schema(SourceKey).table
             /\ events[i].table \in {"fda_drug_adverse_events", "fda_drug_labels",
                                      "fda_device_adverse_events",
                                      "fda_food_recalls", "fda_drug_recalls"}
             /\ \E p \in 1 .. N :
                    source[p].isObject /\ events[i].data = [id |-> source[p].id]
        ELSE /\ events[i].type = "STATE"
             /\ DOMAIN events[i] = {"type", "data"}
             /\ DOMAIN events[i].data = {"skip"}
             /\ events[i].data.skip \in Nat

\* A resumed run on food_recalls: records on two pages and both checkpoints.
C18_Witness ==
    /\ SourceKey = "food_recalls"
    /\ K = 1
    /\ Len(StateMessages(events)) = 2
    /\ \E i \in DOMAIN events :
           events[i].type = "UPSERT" /\ events[i].table = "fda_food_recalls"
    /\ events[Len(events)] = [type |-> "STATE", data |-> [skip |-> 3]]

(***************************************************************************)
(* Normalized records.                                                     *)
(***************************************************************************)
\* The raw items of the page the for loop has been through.
Processed == {i \in DOMAIN results : i < idx}

(* C19: for a given endpoint every normalized record has the same key set,
   the one the record of an item with no field at all has, whichever fields
   the raw item holds; and each raw item the loop has been through gave one
   record if it is well-formed and none if it is malformed, never more. *)
C19_FixedKeySet ==
    /\ \A i \in DOMAIN events :
           /\ \A j \in DOMAIN events :
                  DOMAIN events[i].data = DOMAIN events[j].data
           /\ DOMAIN events[i].data =
                  DOMAIN ExtractRecord(conn.endpoint, JObj(EmptyDict), JStr(""))
           /\ Cardinality(DOMAIN events[i].data) \in {9, 10}
    /\ Len(events) <= Cardinality(Processed)
    /\ Len(events) =
          Cardinality({i \in Processed : ~ExtractRaises(conn.endpoint, results[i])})
    /\ total_synced = Len(events)

\* A page of two different well-formed items, one of them without any field,
\* gave two records.
C19_Witness ==
    /\ Len(results) = 2
    /\ idx = 3
    /\ Len(events) = 2
    /\ results[1] = JObj(EmptyDict)
    /\ results[2] # results[1]
    /\ events[1].data # events[2].data

(***************************************************************************)
(* The retry after a 429.                                                  *)
(***************************************************************************)
\* The last GET has just been answered 429.
LastIs429(log) == log # <<>> /\ log[Len(log)].status = 429

(* C20: a 429 answer leads to the cooldown and then to one retry of the
   same request, with the same parameters; however many 429 answers came
   before, the retry is made and the upstream may answer 429 again; and
   from the 429 to the retry nothing else moves: no message is yielded, the
   offset stays, and the fetch has neither returned a page nor failed. *)
C20_RetryProtocol ==
    /\ [](\A i \in DOMAIN http :
             http[i].status = 429 /\ i < Len(http) =>
                http[i + 1].params = http[i].params)
    /\ [](pc = "cooldown" <=> LastIs429(http))
    /\ [](pc = "cooldown" => ENABLED Retry)
    /\ [](pc = "inflight" => ENABLED RateLimited)
    /\ [][pc = "cooldown" =>
             /\ pc' = "inflight"
             /\ params' = params
             /\ http'[Len(http')] = [params |-> params, status |-> Pending,
                                      hasResults |-> FALSE, n |-> 0]
             /\ Len(http') \in {Len(http), Len(http) + 1}
             /\ Len(http') = Len(http) + 1 => sleeps' = Append(sleeps, CooldownDelay)
             /\ UNCHANGED <<events, skip, total_synced, results, idx>>]_vars
    /\ [][LastIs429(http') /\ ~LastIs429(http) =>
             /\ pc = "inflight" /\ pc' = "cooldown"
             /\ UNCHANGED <<events, skip, total_synced, results, idx, params>>]_vars

\* The upstream has answered 429 more often than the log keeps, the run is
\* about to retry once more, and nothing was yielded.
C20_Witness ==
    /\ pc = "cooldown"
    /\ RateLimitAnswers(http) = MaxRetries + 1
    /\ Len(sleeps) = MaxRetries
    /\ \A i \in DOMAIN http : http[i].params = http[1].params
    /\ events = <<>>

(***************************************************************************)
(* The page request.                                                       *)
(***************************************************************************)
\* The raw items returned by the GETs before the i-th.
RECURSIVE ReturnedBefore(_, _)
ReturnedBefore(log, i) ==
    IF i <= 1 THEN 0 ELSE log[i - 1].n + ReturnedBefore(log, i - 1)

\* min(configured limit_per_request, 1000), 100 when none is configured
EffectivePageSize ==
    LET configured == IF "limit_per_request" \in DOMAIN configuration
                      THEN configuration["limit_per_request"] ELSE 100
    IN  IF configured < 1000 THEN configured ELSE 1000

(* C21: every page request asks for the offset of the initial checkpoint
   plus the number of raw items all earlier pages of the run returned, with
   the effective page size as its limit; with an empty initial checkpoint the
   first request asks for offset 0. *)
C21_RequestFromCheckpoint ==
    \A i \in DOMAIN http :
        /\ http[i].params.skip = K + ReturnedBefore(http, i)
        /\ http[i].params.limit = EffectivePageSize
        /\ (i = 1 /\ state = EmptyDict) => http[i].params.skip = 0

\* The third request of a run resumed at offset 1 over pages of one item.
C21_Witness ==
    /\ Len(http) = 3
    /\ K = 1
    /\ http[1].n = 1 /\ http[2].n = 1
    /\ http[3].params.skip = 3
    /\ http[3].params.limit = 1

(***************************************************************************)
(* The events of one page.                                                 *)
(***************************************************************************)
\* The GET that brought the j-th non-empty page.
NthPage(j) ==
    CHOOSE i \in PageEntries(http) :
        Cardinality({k \in PageEntries(http) : k <= i}) = j

\* The number of STATE messages before position i of the event list.
StatesBefore(i) ==
    Cardinality({k \in 1 .. i - 1 : events[k].type = "STATE"})

(* C22: every fetched page with at least one item gets exactly one STATE
   message: it comes after the UPSERTs of that page and before the next GET,
   its offset is the previous checkpoint's offset plus the number of items
   of the page, and every UPSERT between two STATE messages is of an item of
   the page the second one closes. *)
C22_PageProtocol ==
    LET pages == Cardinality(PageEntries(http))
        offsets == StateOffsets(events)
    IN
    /\ Len(offsets) \in {pages - 1, pages}
    /\ pc \in {"fetch", "inflight", "cooldown", "yield_state", "done"} =>
           Len(offsets) = pages
    /\ pc \in {"items", "yield_upsert"} => Len(offsets) = pages - 1
    /\ \A j \in DOMAIN offsets :
           /\ offsets[j] = (IF j = 1 THEN K ELSE offsets[j - 1]) + http[NthPage(j)].n
           /\ \A i \in DOMAIN http : i > NthPage(j) =>
                  http[i].params.skip = offsets[j] + ReturnedBefore(http, i)
                                        - ReturnedBefore(http, NthPage(j) + 1)
    /\ \A i \in DOMAIN events :
           events[i].type = "UPSERT" =>
              LET page == http[NthPage(StatesBefore(i) + 1)]
              IN  /\ StatesBefore(i) < pages
                  /\ page.params.skip < events[i].data.id
                  /\ events[i].data.id <= page.params.skip + page.n

\* Two pages of two and one items, each closed by its STATE message.
C22_Witness ==
    /\ pc = "done"
    /\ Cardinality(PageEntries(http)) = 2
    /\ Len(Upserts(events)) = 3
    /\ StateOffsets(events) = <<2, 3>>
    /\ events[3].type = "STATE"

(***************************************************************************)
(* The delay between pages.                                                *)
(***************************************************************************)
\* The GETs answered with a page that is not short.
FullPages(log) ==
    {i \in PageEntries(log) : ~(log[i].n < log[i].params.limit)}

(* C23: the delay between pages is slept once after each full page, when
   the consumer has pulled past that page's STATE message and before the
   next GET, and never otherwise: not while the page or its STATE is still
   with the consumer, not after a short page, not after a fetch that is
   empty, has no results or failed. *)
C23_InterPageDelay ==
    LET delays == Count(sleeps, InterPageDelay)
        followed == Cardinality({i \in FullPages(http) : i < Len(http)})
    IN
    /\ P >= 1 => \A i \in FullPages(http) : http[i].n = P
    /\ delays = followed + (IF pc = "fetch" /\ http # <<>> THEN 1 ELSE 0)
    /\ pc = "fetch" /\ http # <<>> => Len(http) \in FullPages(http)
    /\ delays <= Len(StateMessages(events))
    /\ pc \in {"yield_state", "done", "closed"} =>
           delays = followed /\ delays < Len(StateMessages(events)) + 1
    /\ pc = "yield_state" => delays = Len(StateMessages(events)) - 1
    /\ pc = "done" => Len(http) \notin FullPages(http)

\* A full page, the delay, a short page, the end: one delay for two pages.
C23_Witness ==
    /\ pc = "done"
    /\ Len(http) = 2
    /\ http[1].n = 2 /\ http[2].n = 1
    /\ P = 2
    /\ sleeps = <<InterPageDelay>>
    /\ Len(StateMessages(events)) = 2


\* The fetches of the run: the GETs that were answered by something other
\* than 429 (a 429 answer makes the same fetch send its GET again).
Fetches(log) ==
    {i \in DOMAIN log : log[i].status \notin {Pending, RateLimitStatus}}

\* the items between the offset of the checkpoint handed in and the end
Remaining == Len(source) - OffsetOf(state)

(* C24: in a completed run over R > 0 remaining items with page size P >= 1:
   when R is an exact multiple of P there are R/P + 1 fetches, the last one
   answered by an empty page that has no STATE, so R/P STATE messages; when
   it is not there are ceil(R/P) fetches, the last one answered by a short
   page, and as many STATE messages.  In both cases the last STATE carries
   the end of the source. *)
C24_ExactMultipleExtraFetch ==
    (Completed /\ Remaining > 0) =>
        LET size     == conn.limit_per_request
            fetches  == Cardinality(Fetches(http))
            offsets  == StateOffsets(events)
            last     == http[Len(http)]
        IN  /\ offsets # <<>> /\ offsets[Len(offsets)] = Len(source)
            /\ IF Remaining % size = 0
               THEN /\ fetches = (Remaining \div size) + 1
                    /\ last.status = 200 /\ last.hasResults /\ last.n = 0
                    /\ Len(offsets) = Remaining \div size
               ELSE /\ fetches = (Remaining \div size) + 1
                    /\ last.n = Remaining % size
                    /\ Len(offsets) = fetches

\* two items left after offset 1, pages of one: three fetches, two STATEs
C24_Witness ==
    /\ Completed /\ OffsetOf(state) = 1 /\ Len(source) = 3
    /\ conn.limit_per_request = 1
    /\ Cardinality(Fetches(http)) = 3
    /\ http[Len(http)].n = 0
    /\ StateOffsets(events) = <<2, 3>>


\* The last GET of the run was answered by a failure, by a body without
\* `results` or by an empty page.
LastFetchTerminated == http # <<>> /\ TerminatingAnswer(http[Len(http)])

(* C25: a terminating fetch changes nothing.  The step in which a GET is
   answered by a failure, a body without `results` or an empty page ends the
   run without any event and leaves the consumer as it was; in the run it
   ended there is one STATE per non-empty page and none for the terminating
   fetch, the consumer holds the checkpoint of the last such page (the one
   it held before the run if there was none), and that checkpoint is the
   offset of the GET that terminated; a run resumed from there is started
   with that offset and sends its first GET at it. *)
C25_TerminatingFetchNoEffect ==
    /\ [](LastFetchTerminated =>
            LET offsets == StateOffsets(events)
                failed  == http[Len(http)].params.skip
            IN  /\ pc = "done"
                /\ Len(offsets) = Cardinality(PageEntries(http))
                /\ events # <<>> => events[Len(events)].type = "STATE"
                /\ IF offsets = <<>>
                   THEN consumer.checkpoint = state
                   ELSE consumer.checkpoint = [skip |-> offsets[Len(offsets)]]
                /\ OffsetOf(consumer.checkpoint) = failed)
    /\ [][/\ (pc = "inflight" /\ pc' = "done") =>
                events' = events /\ consumer' = consumer
          /\ (LastFetchTerminated /\ pc' = "ready") =>
                OffsetOf(state') = http[Len(http)].params.skip
          /\ (http = <<>> /\ http' # <<>>) =>
                http'[1].params.skip = OffsetOf(state)]_vars

\* a second run, resumed at offset 1, takes a page of one item and fails at
\* offset 2: the consumer is left with the checkpoint of offset 2
C25_Witness ==
    /\ consumer.runs = 2 /\ OffsetOf(consumer.first) = 0
    /\ OffsetOf(state) = 1
    /\ pc = "done" /\ Len(http) = 2
    /\ http[1].n = 1
    /\ http[2].status \notin {200, Pending, RateLimitStatus}
    /\ http[2].params.skip = 2
    /\ Len(Upserts(events)) = 1
    /\ StateOffsets(events) = <<2>>
    /\ consumer.checkpoint = [skip |-> 2]


(***************************************************************************)
(* Records against the declared schema.                                    *)
(***************************************************************************)
(* C26: for every supported endpoint, the keys of every record yielded in
   an UPSERT are exactly the column names schema() declares for that
   endpoint, and the declared primary key is one of the record's keys. *)
C26_RecordMatchesSchema ==
    \A i \in DOMAIN events :
        events[i].type = "UPSERT" =>
            /\ DOMAIN events[i].data = DOMAIN Schema(conn.endpoint).columns
            /\ \A j \in DOMAIN Schema(conn.endpoint).primary_key :
                   Schema(conn.endpoint).primary_key[j] \in DOMAIN events[i].data


(***************************************************************************)
(* Malformed items across runs.                                            *)
(***************************************************************************)
\* A GET of the current run asks for the item at upstream position p
\* (1-based): its window skip+1 .. skip+limit holds p.
Requested(p) ==
    \E i \in DOMAIN http :
        http[i].params.skip < p /\ p <= http[i].params.skip + http[i].params.limit

\* The current run has yielded an UPSERT for the item at position p.
Emitted(p) ==
    \E i \in DOMAIN events : events[i].type = "UPSERT" /\ events[i].data.id = p

\* The item at position p does not normalize, and a checkpoint the consumer
\* received counts it.
SkippedForGood(p) ==
    /\ ~source[p].isObject
    /\ OffsetOf(consumer.first) < p
    /\ p <= OffsetOf(consumer.checkpoint)

(* C27: a skipped malformed item is lost.  The STATE of a page counts every
   item of the page, the malformed ones too; the consumer's checkpoint never
   goes back and each resumed run starts from it; a malformed item that a
   received checkpoint counts was never delivered, and a run started from a
   checkpoint that counts it neither requests nor emits it.  Only a run
   started from a checkpoint before the item requests it, and a run from
   there that reaches the end does request it. *)
C27_SkippedItemLost ==
    /\ [](\A p \in 1 .. Len(source) :
             /\ SkippedForGood(p) =>
                   /\ ~Delivered(p)
                   /\ p <= OffsetOf(state) => ~Requested(p) /\ ~Emitted(p)
             /\ Requested(p) => OffsetOf(state) < p
             /\ (Completed /\ OffsetOf(state) < p) => Requested(p))
    /\ [](pc = "yield_state" =>
             /\ events[Len(events)].data.skip =
                    http[Len(http)].params.skip + http[Len(http)].n
             /\ consumer.checkpoint = events[Len(events)].data)
    /\ [][/\ OffsetOf(consumer.checkpoint') >= OffsetOf(consumer.checkpoint)
          /\ consumer'.runs # consumer.runs => state' = consumer.checkpoint]_vars

\* the first run skipped the malformed second item and its checkpoint
\* counted it; the second run, resumed behind it, reached the end of the
\* source without it
C27_Witness ==
    /\ consumer.runs = 2 /\ OffsetOf(consumer.first) = 0
    /\ Len(source) = 3
    /\ source[1].isObject /\ ~source[2].isObject /\ source[3].isObject
    /\ OffsetOf(state) = 2
    /\ SkippedForGood(2)
    /\ Completed
    /\ UpsertIds(events) = <<3>>
    /\ consumer.received = <<1, 3>>


(***************************************************************************)
(* A page size below 1.                                                    *)
(***************************************************************************)
\* The configuration asks for a page size of 0 or less.
NonPositiveLimit ==
    /\ "limit_per_request" \in DOMAIN configuration
    /\ configuration["limit_per_request"] <= 0

(* C28: a configured page size <= 0 is accepted: the constructor fails for
   such a configuration only on its endpoint, the connector keeps the value
   as it is and every GET carries it as `limit`.  With it no page is short:
   after the STATE of a page the run always goes on to the next fetch, and a
   run that returns has had its last GET answered by an empty page, a body
   without `results` or a failure. *)
C28_NoLowerBound ==
    /\ [](NonPositiveLimit =>
             /\ pc = "config_error" =>
                   /\ "endpoint" \in DOMAIN configuration
                   /\ configuration["endpoint"] \notin DOMAIN ENDPOINTS
             /\ pc \notin {"init", "config_error"} =>
                   conn.limit_per_request = configuration["limit_per_request"]
             /\ \A i \in DOMAIN http :
                   http[i].params.limit = configuration["limit_per_request"]
             /\ pc = "done" =>
                   /\ http # <<>>
                   /\ http[Len(http)].status \notin {Pending, RateLimitStatus}
                   /\ \/ http[Len(http)].status # 200
                      \/ ~http[Len(http)].hasResults
                      \/ http[Len(http)].n = 0)
    /\ [][(NonPositiveLimit /\ pc = "yield_state" /\ pc' # pc) =>
              pc' \in {"fetch", "closed"}]_vars

\* page size 0: a page of two items came all the same, the run went on and
\* ended on the empty page behind it
C28_Witness ==
    /\ NonPositiveLimit
    /\ configuration["limit_per_request"] = 0
    /\ pc = "done"
    /\ Len(http) = 2
    /\ http[1].params.limit = 0 /\ http[1].n = 2
    /\ http[2].status = 200 /\ http[2].hasResults /\ http[2].n = 0
    /\ StateOffsets(events) = <<2>>


(***************************************************************************)
(* What a run leaves alone.                                                *)
(***************************************************************************)
(* C29: no step of a run changes the checkpoint the caller handed in or the
   configuration; once the connector is constructed its endpoint, page
   size, start date and key stay what the constructor made of the
   configuration; and a message, once yielded, is never changed: each STATE
   keeps the offset it was yielded with when the offset advances for a later
   page. *)
C29_FrameEffect ==
    /\ [][/\ state' = state
          /\ configuration' = configuration
          /\ pc \notin {"init", "config_error"} => conn' = conn
          /\ Len(events') >= Len(events)
          /\ \A i \in DOMAIN events : events'[i] = events[i]]_vars
    /\ [](pc \notin {"init", "config_error"} =>
             /\ conn.endpoint = Get(configuration, "endpoint", "drug_adverse_events")
             /\ conn.limit_per_request =
                    Min(Get(configuration, "limit_per_request", 100), 1000)
             /\ conn.start_date = GetOptional(configuration, "start_date")
             /\ conn.api_key = GetOptional(configuration, "api_key"))

\* a run from {skip: 1} has yielded the STATEs of offsets 2 and 3, and the
\* caller's checkpoint still says 1
C29_Witness ==
    /\ state = [skip |-> 1]
    /\ configuration = [limit_per_request |-> 1]
    /\ pc = "yield_state"
    /\ skip = 3
    /\ StateOffsets(events) = <<2, 3>>
    /\ events[2].data.skip = 2


(***************************************************************************)
(* A checkpoint at or behind the end of the source.                        *)
(***************************************************************************)
\* The checkpoint handed in covers the whole source.
AtOrBeyondEnd == OffsetOf(state) >= Len(source)

\* What such a run has done, at any moment: nothing but one request.
OneFetchNoEvent ==
    /\ events = <<>>
    /\ consumer.received = <<>>
    /\ consumer.checkpoint = state
    /\ Cardinality(Fetches(http)) <= 1
    /\ \A i \in DOMAIN http :
           /\ http[i].params.skip = OffsetOf(state)
           /\ http[i].n = 0
           /\ i < Len(http) => http[i].status = RateLimitStatus
    /\ Fetches(http) # {} => pc = "done"
    /\ pc = "done" =>
           /\ Cardinality(Fetches(http)) = 1
           /\ sleeps = [i \in 1 .. Len(sleeps) |-> CooldownDelay]

(* C30: a run from a checkpoint {skip: k} with k >= N makes one fetch, at
   offset k, and yields nothing: every GET it sends is that one request (a
   429 makes it send the same GET again), no UPSERT and no STATE is
   yielded, the answer to the fetch ends the run, and a run that has
   returned has made exactly one fetch.  The run comes to its end (returned,
   dropped by the consumer, or refused at construction) unless that one
   fetch is answered 429 again and again. *)
C30_ResumeAtEndNoOp ==
    /\ [](AtOrBeyondEnd => OneFetchNoEvent)
    /\ AtOrBeyondEnd =>
          \/ <>(pc \in {"done", "closed", "config_error"})
          \/ []<>(pc = "cooldown")

\* from {skip: 3} over three items: one GET at offset 3, answered by an
\* empty page, and the run is over with nothing yielded
C30_Witness ==
    /\ state = [skip |-> 3] /\ Len(source) = 3
    /\ pc = "done"
    /\ Len(http) = 1
    /\ http[1].params.skip = 3
    /\ http[1].status = 200 /\ http[1].hasResults /\ http[1].n = 0
    /\ events = <<>>
    /\ consumer.pulls = 1

====
